---- MODULE Spec2Model ----
(***************************************************************************)
(* Save-state reconciliation and download engine of unidown's APlugin      *)
(* (src/unidown/plugin/a_plugin.py) with LinkItem, SaveState and the test  *)
(* plugin's MySaveState.                                                   *)
(***************************************************************************)
EXTENDS Integers, Sequences, FiniteSets, TLC

VARIABLES base, file, folder, last_update, download_data, username, call, ret,
          link_item, pool, dirs, saving, simul_downloads, dl, tasks

\* the LinkItem under construction, the connection pool and the directories of
\* the plugin, a save in progress, and a download call with its tasks
aux == <<link_item, pool, dirs, saving, simul_downloads, dl, tasks>>

vars == <<base, file, folder, last_update, download_data, username, call, ret, aux>>

(***************************************************************************)
(* Bounds and input domains                                                *)
(***************************************************************************)
\* instants are 0..MaxTime, in units of 1/SubSecond second; 0 is 1970-01-01
MaxTime == 2
\* units of an instant per second (the microseconds of a datetime)
SubSecond == 2
\* how many files the downloads of one run may write
MaxDownloads == 3

Times == 0..MaxTime
Locators == {"/a", "/b"}
BaseNames == {"One", "Two"}

\* a file name: a base string followed by d copies of "_d"
FileName(b, d) == [b |-> b, d |-> d]
ItemNames == {FileName(b, 0) : b \in BaseNames}

\* LinkItem(name, time): the setters reject an empty name and a None time,
\* so an item of a collection has a name and an instant
LinkItem(name, time) == [name |-> name, time |-> time]
LinkItems == {LinkItem(n, t) : n \in ItemNames, t \in Times}

\* Dict[str, LinkItem]: a finite map from locators to link items
Dicts == UNION {[D -> LinkItems] : D \in SUBSET Locators}
EmptyDict == [l \in {} |-> LinkItem(FileName("One", 0), 0)]

NoCall == [op |-> "none"]
NoRet == [kind |-> "none"]

(***************************************************************************)
(* APlugin.update_dict                                                     *)
(***************************************************************************)
\* a merge that keeps the base's item unless it is strictly older
update_dict_timed(b, new) ==
    [l \in DOMAIN b \cup DOMAIN new |->
        IF l \in DOMAIN new /\ (l \notin DOMAIN b \/ b[l].time < new[l].time)
        THEN new[l] ELSE b[l]]

\* a merge that pops the locators both have and forgets to put them back
update_dict_pop(b, new) ==
    [l \in (DOMAIN b \ DOMAIN new) \cup (DOMAIN new \ DOMAIN b) |->
        IF l \in DOMAIN new THEN new[l] ELSE b[l]]

\* an assignment in place of a merge
update_dict_assign(b, new) == new

\* a merge that adds the new locators and keeps the base's item for a locator
\* it already has
update_dict_setdefault(b, new) ==
    [l \in DOMAIN b \cup DOMAIN new |-> IF l \in DOMAIN b THEN b[l] ELSE new[l]]

\* base.update(new)
update_dict(b, new) ==
    [l \in DOMAIN b \cup DOMAIN new |-> IF l \in DOMAIN new THEN new[l] ELSE b[l]]

UpdateDict(new) ==
    /\ base' = update_dict(base, new)
    /\ call' = [op |-> "update_dict", new |-> new, pre |-> base,
                again |-> (call.op = "update_dict" /\ call.new = new)]
    /\ ret' = [kind |-> "none"]
    /\ UNCHANGED <<file, folder, last_update, download_data, username, aux>>

(***************************************************************************)
(* LinkItem, PluginInfo and SaveState: values and their persisted form     *)
(***************************************************************************)
\* datetime(1970, 1, 1)
Epoch == 0

\* dynamic_data.SAVE_STATE_VERSION, the engine's save-state format version
SAVE_STATE_VERSION == "1"
FormatVersions == {"1", "2"}

PluginInfo(name, version, host) == [name |-> name, version |-> version, host |-> host]
\* the plugin under test: PluginInfo('test', '1.0.0', 'raw.githubusercontent.com')
info == PluginInfo("test", "1.0.0", "raw.githubusercontent.com")
PluginNames == {"test", "different"}
PluginVersions == {"1.0.0", "2.0.0"}
Usernames == {"", "Nasua Nasua"}

\* the catalog of the plugin under test
eg_data ==
    [l \in Locators |->
        IF l = "/a" THEN LinkItem(FileName("One", 0), 1)
                    ELSE LinkItem(FileName("Two", 0), 2)]
Catalogs == {EmptyDict, eg_data}

\* "%Y%m%dT%H%M%S.%fZ": the whole seconds, then the fraction of a second
strftime(t) == [sec |-> t \div SubSecond, frac |-> t % SubSecond]
strptime(s) == s.sec * SubSecond + s.frac

Raise(err) == [ok |-> FALSE, err |-> err]
Value(v) == [ok |-> TRUE, val |-> v]

\* a time format without the fraction of a second ("%Y%m%dT%H%M%SZ")
LinkItem_to_json_seconds(item) ==
    [name |-> item.name, time |-> [sec |-> item.time \div SubSecond, frac |-> 0]]

\* LinkItem.to_json
LinkItem_to_json(item) == [name |-> item.name, time |-> strftime(item.time)]

\* LinkItem.from_json; the name setter rejects the empty name
LinkItem_from_json(data) ==
    IF "name" \notin DOMAIN data THEN Raise("ValueError")
    ELSE IF "time" \notin DOMAIN data THEN Raise("ValueError")
    ELSE IF data["name"].b = "" THEN Raise("ValueError")
    ELSE Value(LinkItem(data["name"], strptime(data["time"])))

\* SaveState(version, plugin_info, last_update, link_items), as a_plugin.py calls it
SaveState(version, plugin_info, last_update_, link_items) ==
    [version |-> version, plugin_info |-> plugin_info, last_update |-> last_update_,
     link_items |-> link_items, username |-> ""]

\* MySaveState adds the username
MySaveState(savestate, username_) == [savestate EXCEPT !.username = username_]

RequiredKeys == {"meta", "pluginInfo", "lastUpdate", "linkItems"}

\* SaveState.to_json: meta.version, pluginInfo, lastUpdate, linkItems
SaveState_to_json(s) ==
    [meta |-> [version |-> s.version],
     pluginInfo |-> s.plugin_info,
     lastUpdate |-> strftime(s.last_update),
     linkItems |-> [l \in DOMAIN s.link_items |-> LinkItem_to_json(s.link_items[l])]]

\* MySaveState.to_json: the base record and the username
MySaveState_to_json(s) ==
    [k \in RequiredKeys \cup {"username"} |->
        IF k = "username" THEN s.username ELSE SaveState_to_json(s)[k]]

\* SaveState.from_json: a missing top-level key or a bad link item is an error
SaveState_from_json(data) ==
    IF ~(RequiredKeys \subseteq DOMAIN data) THEN Raise("ValueError")
    ELSE IF "version" \notin DOMAIN data["meta"] THEN Raise("ValueError")
    ELSE IF \E l \in DOMAIN data["linkItems"] : ~LinkItem_from_json(data["linkItems"][l]).ok
         THEN Raise("ValueError")
    ELSE Value(SaveState(data["meta"]["version"], data["pluginInfo"],
                         strptime(data["lastUpdate"]),
                         [l \in DOMAIN data["linkItems"] |->
                             LinkItem_from_json(data["linkItems"][l]).val]))

\* MySaveState.from_json: the base state, and the username when the record has one
MySaveState_from_json(data) ==
    LET r == SaveState_from_json(data) IN
    IF ~r.ok THEN r
    ELSE IF "username" \in DOMAIN data THEN Value(MySaveState(r.val, data["username"]))
    ELSE r

(***************************************************************************)
(* The save-state file and APlugin.save_save_state / load_save_state       *)
(***************************************************************************)
NoFile == [kind |-> "absent"]
\* a file that is not JSON (the test writes the bytes 'test')
Garbage == [kind |-> "text"]
JsonFile(data) == [kind |-> "json", data |-> data]

Ok(savestate) == [kind |-> "ok", state |-> savestate]
PluginException(msg) == [kind |-> "PluginException", msg |-> msg]

BrokenJson == "Broken savestate json."
CouldNotParse == "Could not parse the savestate."
DiffSaveStateVersion == "Different save state version handling is not implemented yet."
DiffPluginVersion == "Different plugin version handling is not implemented yet."
DiffPluginName == "Save state plugin does not match the current."

\* APlugin._create_save_state, with the state class of the plugin under test
create_save_state(link_item_dict) ==
    MySaveState(SaveState(SAVE_STATE_VERSION, info, last_update, link_item_dict), username)

\* the text APlugin.save_save_state writes
save_json(data_dict) == JsonFile(MySaveState_to_json(create_save_state(data_dict)))

\* a load that swallows a broken or incomplete record and starts afresh
load_save_state_lenient(f) ==
    LET fresh == Ok(SaveState(SAVE_STATE_VERSION, info, Epoch, EmptyDict))
        r == MySaveState_from_json(f.data) IN
    IF f.kind = "absent" THEN fresh
    ELSE IF f.kind = "text" THEN fresh
    ELSE IF ~r.ok THEN fresh
    ELSE IF r.val.version # SAVE_STATE_VERSION THEN PluginException(DiffSaveStateVersion)
    ELSE IF r.val.plugin_info.version # info.version THEN PluginException(DiffPluginVersion)
    ELSE IF r.val.plugin_info.name # info.name THEN PluginException(DiffPluginName)
    ELSE Ok(r.val)

\* a load whose fresh state takes the plugin's current update time
load_save_state_no_epoch(f) ==
    LET r == MySaveState_from_json(f.data) IN
    IF f.kind = "absent" THEN Ok(SaveState(SAVE_STATE_VERSION, info, last_update, EmptyDict))
    ELSE IF f.kind = "text" THEN PluginException(BrokenJson)
    ELSE IF ~r.ok THEN PluginException(CouldNotParse)
    ELSE IF r.val.version # SAVE_STATE_VERSION THEN PluginException(DiffSaveStateVersion)
    ELSE IF r.val.plugin_info.version # info.version THEN PluginException(DiffPluginVersion)
    ELSE IF r.val.plugin_info.name # info.name THEN PluginException(DiffPluginName)
    ELSE Ok(r.val)

\* a load without the format-version check
load_save_state_any_version(f) ==
    LET r == MySaveState_from_json(f.data) IN
    IF f.kind = "absent" THEN Ok(SaveState(SAVE_STATE_VERSION, info, Epoch, EmptyDict))
    ELSE IF f.kind = "text" THEN PluginException(BrokenJson)
    ELSE IF ~r.ok THEN PluginException(CouldNotParse)
    ELSE IF r.val.plugin_info.version # info.version THEN PluginException(DiffPluginVersion)
    ELSE IF r.val.plugin_info.name # info.name THEN PluginException(DiffPluginName)
    ELSE Ok(r.val)

\* a load without the plugin-name check
load_save_state_any_name(f) ==
    LET r == MySaveState_from_json(f.data) IN
    IF f.kind = "absent" THEN Ok(SaveState(SAVE_STATE_VERSION, info, Epoch, EmptyDict))
    ELSE IF f.kind = "text" THEN PluginException(BrokenJson)
    ELSE IF ~r.ok THEN PluginException(CouldNotParse)
    ELSE IF r.val.version # SAVE_STATE_VERSION THEN PluginException(DiffSaveStateVersion)
    ELSE IF r.val.plugin_info.version # info.version THEN PluginException(DiffPluginVersion)
    ELSE Ok(r.val)

\* a load that compares the plugin name before the two versions
load_save_state_name_first(f) ==
    LET r == MySaveState_from_json(f.data) IN
    IF f.kind = "absent" THEN Ok(SaveState(SAVE_STATE_VERSION, info, Epoch, EmptyDict))
    ELSE IF f.kind = "text" THEN PluginException(BrokenJson)
    ELSE IF ~r.ok THEN PluginException(CouldNotParse)
    ELSE IF r.val.plugin_info.name # info.name THEN PluginException(DiffPluginName)
    ELSE IF r.val.version # SAVE_STATE_VERSION THEN PluginException(DiffSaveStateVersion)
    ELSE IF r.val.plugin_info.version # info.version THEN PluginException(DiffPluginVersion)
    ELSE Ok(r.val)

\* APlugin.load_save_state: what it returns or raises for the file f
load_save_state(f) ==
    LET r == MySaveState_from_json(f.data) IN
    IF f.kind = "absent" THEN Ok(SaveState(SAVE_STATE_VERSION, info, Epoch, EmptyDict))
    ELSE IF f.kind = "text" THEN PluginException(BrokenJson)
    ELSE IF ~r.ok THEN PluginException(CouldNotParse)
    ELSE IF r.val.version # SAVE_STATE_VERSION THEN PluginException(DiffSaveStateVersion)
    ELSE IF r.val.plugin_info.version # info.version THEN PluginException(DiffPluginVersion)
    ELSE IF r.val.plugin_info.name # info.name THEN PluginException(DiffPluginName)
    ELSE Ok(r.val)

SaveSaveState(data_dict) ==
    /\ file' = save_json(data_dict)
    /\ call' = [op |-> "save_save_state", state |-> create_save_state(data_dict)]
    /\ ret' = NoRet
    /\ UNCHANGED <<base, folder, last_update, download_data, username, aux>>

LoadSaveState ==
    /\ ret' = load_save_state(file)
    /\ call' = [op |-> "load_save_state", after_save |-> (call.op = "save_save_state"),
                saved |-> IF call.op = "save_save_state" THEN call.state ELSE NoRet,
                file |-> file, last_update |-> last_update,
                download_data |-> download_data]
    /\ UNCHANGED <<base, file, folder, last_update, download_data, username, aux>>

\* APlugin.update_last_update: the subclass supplies the time
UpdateLastUpdate(t) ==
    /\ last_update' = t
    /\ call' = [op |-> "update_last_update"]
    /\ ret' = NoRet
    /\ UNCHANGED <<base, file, folder, download_data, username, aux>>

\* APlugin.update_download_links: the subclass supplies the catalog
UpdateDownloadLinks(catalog) ==
    /\ download_data' = catalog
    /\ call' = [op |-> "update_download_links"]
    /\ ret' = NoRet
    /\ UNCHANGED <<base, file, folder, last_update, username, aux>>

(***************************************************************************)
(* Save-state files a plugin may find on disk                              *)
(***************************************************************************)
AllKeys == RequiredKeys \cup {"username"}
DropSets == {{}} \cup {{k} : k \in AllKeys} \cup {AllKeys}
Drop(j, K) == [k \in DOMAIN j \ K |-> j[k]]

\* link-item entries lacking a field, or with an empty name
BadEntries ==
    {[name |-> FileName("One", 0)],
     [time |-> strftime(1)],
     [name |-> FileName("", 0), time |-> strftime(1)]}
DiskLinkItems ==
    {[l \in DOMAIN d |-> LinkItem_to_json(d[l])] : d \in Catalogs}
        \cup {[l \in {x} |-> e] : x \in Locators, e \in BadEntries}

FullJsons ==
    {[meta |-> [version |-> v],
      pluginInfo |-> PluginInfo(n, pv, info.host),
      lastUpdate |-> strftime(t),
      linkItems |-> d,
      username |-> u] :
        v \in FormatVersions, n \in PluginNames, pv \in PluginVersions,
        t \in Times, d \in DiskLinkItems, u \in Usernames}

DiskFiles ==
    {NoFile, Garbage} \cup {JsonFile(Drop(j, K)) : j \in FullJsons, K \in DropSets}

(***************************************************************************)
(* The download folder, APlugin.download_as_file and check_download        *)
(***************************************************************************)
\* a folder maps the names in it to a directory or to a file; a file holds the
\* number of the download that wrote it, 0 when it was there before the run
Dir == [kind |-> "dir", nth |-> 0, data |-> "none"]
File(nth) == [kind |-> "file", nth |-> nth, data |-> "full"]
\* a file that open(mode='wb') created and nothing was written to
EmptyFile(nth) == [kind |-> "file", nth |-> nth, data |-> "empty"]
Written(f) == {n \in DOMAIN f : f[n].nth > 0}
Exists(f, name) == name \in DOMAIN f
IsFile(f, name) == name \in DOMAIN f /\ f[name].kind = "file"

\* a target name taken as it is, existing or not
target_name_as_given(f, name) == name

\* while folder.joinpath(name).exists(): name = name + '_d'
RECURSIVE target_name(_, _)
target_name(f, name) ==
    IF Exists(f, name) THEN target_name(f, FileName(name.b, name.d + 1)) ELSE name

\* folder.joinpath(name).open(mode='wb') and write: the file now holds the
\* data of this download
write_file(f, name) ==
    [n \in DOMAIN f \cup {name} |-> IF n = name THEN File(Cardinality(Written(f)) + 1) ELSE f[n]]

\* folder.joinpath(name).open(mode='wb') with a body that cannot be read
\* (preload_content=False: reader.data reads it after the file is open)
open_file(f, name) ==
    [n \in DOMAIN f \cup {name} |->
        IF n = name THEN EmptyFile(Cardinality(Written(f)) + 1) ELSE f[n]]

\* the status of the response, a response 200 whose body cannot be read, or no
\* response after the retries
Responses == {"200", "404", "200_body_error", "MaxRetryError"}
Delays == {0, 1}

Return(v) == [kind |-> "ok", val |-> v]
HTTPError == [kind |-> "HTTPError"]
\* time is the function time.time (from time import time): time.sleep raises
AttributeError == [kind |-> "AttributeError"]

\* one call of download_as_file, run alone
DownloadAsFile(url, name, resp, delay) ==
    LET t == target_name(folder, name) IN
    /\ Cardinality(Written(folder)) < MaxDownloads
    /\ folder' = IF resp = "200" THEN write_file(folder, t)
                 ELSE IF resp = "200_body_error" THEN open_file(folder, t)
                 ELSE folder
    /\ ret' = IF resp # "200" THEN HTTPError
              ELSE IF delay > 0 THEN AttributeError
              ELSE Return(url)
    /\ call' = [op |-> "download_as_file", url |-> url, name |-> name, resp |-> resp,
                delay |-> delay, pre |-> folder, target |-> t]
    /\ UNCHANGED <<base, file, last_update, download_data, username, aux>>

\* a check that takes any directory entry of the name for the download
check_download_exists(link_item_dict, f) ==
    LET succeed == {l \in DOMAIN link_item_dict : Exists(f, link_item_dict[l].name)} IN
    [succeed |-> [l \in succeed |-> link_item_dict[l]],
     lost |-> [l \in DOMAIN link_item_dict \ succeed |-> link_item_dict[l]]]

\* APlugin.check_download: (succeed, lost)
check_download(link_item_dict, f) ==
    LET succeed == {l \in DOMAIN link_item_dict : IsFile(f, link_item_dict[l].name)} IN
    [succeed |-> [l \in succeed |-> link_item_dict[l]],
     lost |-> [l \in DOMAIN link_item_dict \ succeed |-> link_item_dict[l]]]

CheckDownload(link_item_dict) ==
    /\ ret' = Return(check_download(link_item_dict, folder))
    /\ call' = [op |-> "check_download", dict |-> link_item_dict]
    /\ UNCHANGED <<base, file, folder, last_update, download_data, username, aux>>

\* what the folder may hold before the run: files and directories
PreNames == {FileName("One", 0), FileName("One", 1), FileName("Two", 0)}
PreFolders ==
    {f \in UNION {[D -> {File(0), Dir}] : D \in SUBSET PreNames} :
        \A n \in DOMAIN f : f[n] = Dir => n = FileName("Two", 0)}

\* the collections handed to check_download: the items of the catalog under
\* test and a second item of the name One
CheckItems == {eg_data[l] : l \in Locators} \cup {LinkItem(FileName("One", 0), Epoch)}
CheckDicts == UNION {[D -> CheckItems] : D \in SUBSET Locators}

(***************************************************************************)
(* Specifications                                                          *)
(***************************************************************************)
EmptyFolder == [n \in {} |-> Dir]

\* APlugin.__init__: epoch, no download data
\* downloader.pool: the queue of connections, or None after close()
PoolOpen == "open"
PoolNone == "None"
NoItem == [kind |-> "none"]
NoSave == [pc |-> "idle"]
NoDownload == [pc |-> "idle"]
NoTasks == [l \in {} |-> [pc |-> "none"]]

\* the rest of APlugin.__init__: the directories exist, the pool is open,
\* nothing is running
ConstructedAux ==
    /\ link_item = NoItem
    /\ pool = PoolOpen
    /\ dirs = [temp |-> TRUE, download |-> TRUE]
    /\ saving = NoSave
    /\ simul_downloads = 1
    /\ dl = NoDownload
    /\ tasks = NoTasks

Constructed ==
    /\ ConstructedAux
    /\ base = EmptyDict
    /\ folder = EmptyFolder
    /\ last_update = Epoch
    /\ download_data = EmptyDict
    /\ call = NoCall
    /\ ret = NoRet

\* reconciliation: merges into a save-state collection
Init ==
    /\ Constructed
    /\ file = NoFile
    /\ username = ""

Next == \E new \in Dicts : UpdateDict(new)

Spec == Init /\ [][Next]_vars

\* persistence: a plugin over some save file, saving and loading
InitState ==
    /\ Constructed
    /\ file \in DiskFiles
    /\ username \in Usernames

NextState ==
    \/ \E d \in Dicts : SaveSaveState(d)
    \/ LoadSaveState
    \/ \E t \in Times : UpdateLastUpdate(t)
    \/ \E c \in Catalogs : UpdateDownloadLinks(c)

SpecState == InitState /\ [][NextState]_vars

\* downloads run one after another, and checks of what is in the folder
InitFolder ==
    /\ ConstructedAux
    /\ base = EmptyDict
    /\ folder \in PreFolders
    /\ last_update = Epoch
    /\ download_data = EmptyDict
    /\ file = NoFile
    /\ username = ""
    /\ call = NoCall
    /\ ret = NoRet

NextDownload ==
    \/ \E url \in Locators, name \in ItemNames, resp \in Responses, delay \in Delays :
          DownloadAsFile(url, name, resp, delay)
    \/ \E d \in CheckDicts : CheckDownload(d)

SpecDownload == InitFolder /\ [][NextDownload]_vars

(***************************************************************************)
(* Claims on update_dict (specification Spec)                              *)
(***************************************************************************)
\* C1 as stated: update_dict is a time-based merge; a locator of new takes the
\* new item only when the base lacks it or holds a strictly older item, and
\* otherwise keeps the base's item.
C1_ActualizeTimeBased ==
    call.op = "update_dict" =>
        \A l \in DOMAIN call.new :
            /\ l \in DOMAIN base
            /\ base[l] = IF l \in DOMAIN call.pre /\ call.pre[l].time >= call.new[l].time
                         THEN call.pre[l] ELSE call.new[l]

\* C1 amended: after update_dict(base, new) every locator of new maps to new's
\* item in the base, whatever the times of the two items (base.update(new)).
C1_ActualizeOverwrites ==
    call.op = "update_dict" =>
        \A l \in DOMAIN call.new : l \in DOMAIN base /\ base[l] = call.new[l]

\* a merge has replaced a strictly newer base item by an older, different one
C1_Witness ==
    /\ call.op = "update_dict"
    /\ \E l \in DOMAIN call.new \cap DOMAIN call.pre :
          /\ call.pre[l].time > call.new[l].time
          /\ call.pre[l].name # call.new[l].name
          /\ base[l] = call.new[l]

\* C2: update_dict is idempotent; applying the same new a second time leaves
\* the base as the first application left it.
C2_ActualizeIdempotent ==
    (call.op = "update_dict" /\ call.again) => base = call.pre

\* the same non-empty new has been merged twice in a row into the base
C2_Witness ==
    /\ call.op = "update_dict"
    /\ call.again
    /\ DOMAIN call.new # {}
    /\ \E l \in DOMAIN call.new : base[l].time > 0

\* C3: update_dict never prunes; a locator of the base that new lacks is still
\* in the base after the merge, with the same name and time.
C3_ActualizeNeverPrunes ==
    call.op = "update_dict" =>
        \A l \in DOMAIN call.pre \ DOMAIN call.new :
            l \in DOMAIN base /\ base[l] = call.pre[l]

\* a non-empty new has been merged into a base holding a locator new lacks
C3_Witness ==
    /\ call.op = "update_dict"
    /\ DOMAIN call.new # {}
    /\ DOMAIN call.pre \ DOMAIN call.new # {}
    /\ DOMAIN base = Locators

C4_WitnessEmpty ==
    /\ call.op = "load_save_state"
    /\ call.after_save
    /\ ret.kind = "ok"
    /\ ret.state.link_items = EmptyDict

\* the loaded file is a record naming another plugin
OtherPluginFile ==
    /\ call.op = "load_save_state"
    /\ file.kind = "json"
    /\ "pluginInfo" \in DOMAIN file.data
    /\ file.data["pluginInfo"].name # info.name

\* the record of the loaded file parses and carries the current format and
\* plugin versions
CurrentVersionsFile ==
    /\ MySaveState_from_json(file.data).ok
    /\ file.data["meta"]["version"] = SAVE_STATE_VERSION
    /\ file.data["pluginInfo"].version = info.version

\* C5 as stated: loading a record whose pluginInfo.name differs from the
\* plugin's name always fails with the identity-mismatch error, whatever the
\* other fields are.
C5_NameMismatchIsIdentityError ==
    OtherPluginFile => ret = PluginException(DiffPluginName)

\* C5 amended: loading a record whose pluginInfo.name differs from the plugin's
\* name always fails with a PluginException and never returns a SaveState; the
\* exception is the plugin-name mismatch exactly when the record parses and its
\* format version and plugin version are the current ones.
C5_NameMismatchNeverLoads ==
    OtherPluginFile =>
        /\ ret.kind = "PluginException"
        /\ (ret.msg = DiffPluginName) <=> CurrentVersionsFile

\* a record of another plugin with the current versions has been rejected for
\* its name
C5_Witness ==
    /\ OtherPluginFile
    /\ CurrentVersionsFile
    /\ ret = PluginException(DiffPluginName)

\* the file is no structured data, or its record lacks a required field
Malformed(f) ==
    \/ f.kind = "text"
    \/ /\ f.kind = "json"
       /\ \/ ~(RequiredKeys \subseteq DOMAIN f.data)
          \/ \E l \in DOMAIN f.data["linkItems"] :
                ~({"name", "time"} \subseteq DOMAIN f.data["linkItems"][l])

C6_WitnessText ==
    /\ call.op = "load_save_state"
    /\ file.kind = "text"
    /\ ret.kind = "PluginException"

ParsedFile ==
    /\ call.op = "load_save_state"
    /\ file.kind = "json"
    /\ MySaveState_from_json(file.data).ok

\* C8: a record whose format version is the engine's passes the version step
\* unchanged (what is returned is the record as parsed), and a record with any
\* other format version fails with 'different save state version handling is
\* not implemented', whatever its other fields.
C8_FormatVersion ==
    ParsedFile =>
        /\ file.data["meta"]["version"] # SAVE_STATE_VERSION
              => ret = PluginException(DiffSaveStateVersion)
        /\ file.data["meta"]["version"] = SAVE_STATE_VERSION
              => /\ ret # PluginException(DiffSaveStateVersion)
                 /\ ret.kind = "ok" => ret.state = MySaveState_from_json(file.data).val

\* a record of the current plugin and plugin version with a newer format
\* version has been rejected
C8_Witness ==
    /\ ParsedFile
    /\ file.data["meta"]["version"] # SAVE_STATE_VERSION
    /\ file.data["pluginInfo"] = info
    /\ ret = PluginException(DiffSaveStateVersion)

\* a record with the engine's format version has been loaded from a file that
\* no save of this run wrote
C8_WitnessSame ==
    /\ ParsedFile
    /\ ~call.after_save
    /\ file.data["meta"]["version"] = SAVE_STATE_VERSION
    /\ DOMAIN file.data["linkItems"] # {}
    /\ ret.kind = "ok"

(***************************************************************************)
(* Claims on check_download and download_as_file (specification            *)
(* SpecDownload)                                                           *)
(***************************************************************************)
\* C9: check_download partitions its input; succeed and lost are disjoint,
\* together they hold exactly the locators of the input with the same items,
\* and a locator is in succeed iff the folder holds a file of its item's name.
C9_VerifyPartitions ==
    call.op = "check_download" =>
        LET succeed == ret.val.succeed
            lost == ret.val.lost IN
        /\ DOMAIN succeed \cap DOMAIN lost = {}
        /\ DOMAIN succeed \cup DOMAIN lost = DOMAIN call.dict
        /\ \A l \in DOMAIN succeed : succeed[l] = call.dict[l]
        /\ \A l \in DOMAIN lost : lost[l] = call.dict[l]
        /\ \A l \in DOMAIN call.dict :
              l \in DOMAIN succeed <=>
                  /\ call.dict[l].name \in DOMAIN folder
                  /\ folder[call.dict[l].name].kind = "file"

\* items One and Two checked with only the file One in the folder (Two being
\* absent or a directory): succeed is the first, lost the second
C9_Witness ==
    /\ call.op = "check_download"
    /\ call.dict = eg_data
    /\ IsFile(folder, FileName("One", 0))
    /\ ~IsFile(folder, FileName("Two", 0))
    /\ DOMAIN ret.val.succeed = {"/a"}
    /\ DOMAIN ret.val.lost = {"/b"}

\* the empty collection checked: two empty collections
C9_WitnessEmpty ==
    /\ call.op = "check_download"
    /\ call.dict = EmptyDict
    /\ ret.val.succeed = EmptyDict
    /\ ret.val.lost = EmptyDict
    /\ DOMAIN folder # {}

\* C10: a download run alone never overwrites or removes what the folder
\* held; with a 200 response it writes exactly one new file, under the first
\* of name, name_d, name_d_d, ... that did not exist, every earlier name of
\* that row being taken; so the files of all the downloads so far are distinct.
C10_CollisionSuffix ==
    /\ call.op = "download_as_file" =>
          /\ \A n \in DOMAIN call.pre : n \in DOMAIN folder /\ folder[n] = call.pre[n]
          /\ call.resp = "200" =>
                /\ call.target \notin DOMAIN call.pre
                /\ call.target.b = call.name.b
                /\ \A d \in call.name.d .. (call.target.d - 1) :
                      FileName(call.name.b, d) \in DOMAIN call.pre
                /\ DOMAIN folder = DOMAIN call.pre \cup {call.target}
                /\ folder[call.target] = File(Cardinality(Written(call.pre)) + 1)
          /\ call.resp \in {"404", "MaxRetryError"} => folder = call.pre
    /\ \A k \in 1 .. Cardinality(Written(folder)) :
          \E n \in Written(folder) : folder[n].nth = k

\* three downloads to the name One of an empty folder have left One, One_d
\* and One_d_d, written by the first, second and third download
C10_Witness ==
    /\ call.op = "download_as_file"
    /\ DOMAIN folder = {FileName("One", 0), FileName("One", 1), FileName("One", 2)}
    /\ \A d \in 0 .. 2 : folder[FileName("One", d)].nth = d + 1

\* a download to a name that a file of before the run holds went to name_d_d
C10_WitnessExisting ==
    /\ call.op = "download_as_file"
    /\ call.resp = "200"
    /\ FileName("One", 0) \in DOMAIN call.pre
    /\ call.pre[FileName("One", 0)].nth = 0
    /\ call.target = FileName("One", 2)

(***************************************************************************)
(* Claims on the per-item delay (specification SpecDownload)               *)
(***************************************************************************)
\* C20 as stated: for every non-negative delay, a download_as_file call whose
\* fetch succeeded (response 200) writes its file and then reports success,
\* returning the url; a positive delay never turns the write into a failure.
C20_DelayKeepsSuccess ==
    (call.op = "download_as_file" /\ call.resp = "200") =>
        /\ IsFile(folder, call.target)
        /\ ret = Return(call.url)

(***************************************************************************)
(* LinkItem: the constructor and the two setters (specification SpecItem)  *)
(***************************************************************************)
\* an argument is None or a value
None == [some |-> FALSE]
Some(v) == [some |-> TRUE, val |-> v]
IsNone(x) == ~x.some

\* the empty string as a name
EmptyName == FileName("", 0)
NameArgs == {None} \cup {Some(n) : n \in ItemNames \cup {EmptyName}}
TimeArgs == {None} \cup {Some(t) : t \in Times}

\* a name setter that rejects None only
name_setter_nonempty_unchecked(obj, name) ==
    IF IsNone(name) THEN Raise("ValueError")
    ELSE Value([obj EXCEPT !.name = name.val])

\* LinkItem.name.setter
name_setter(obj, name) ==
    IF IsNone(name) \/ name.val = EmptyName THEN Raise("ValueError")
    ELSE Value([obj EXCEPT !.name = name.val])

\* LinkItem.time.setter
time_setter(obj, time) ==
    IF IsNone(time) THEN Raise("ValueError")
    ELSE Value([obj EXCEPT !.time = time.val])

\* LinkItem.__init__: _name = "", _time = datetime(1970, 1, 1), then the setters
LinkItem_init(name, time) ==
    LET r == name_setter(LinkItem(EmptyName, Epoch), name) IN
    IF ~r.ok THEN r ELSE time_setter(r.val, time)

\* LinkItem(name, time): a failed construction leaves no new object
Construct(name, time) ==
    LET r == LinkItem_init(name, time) IN
    /\ link_item' = IF r.ok THEN r.val ELSE link_item
    /\ ret' = r
    /\ call' = [op |-> "LinkItem", name |-> name, time |-> time, pre |-> link_item]
    /\ UNCHANGED <<base, file, folder, last_update, download_data, username,
                   pool, dirs, saving, simul_downloads, dl, tasks>>

\* item.name = name
SetName(name) ==
    LET r == name_setter(link_item, name) IN
    /\ link_item # NoItem
    /\ link_item' = IF r.ok THEN r.val ELSE link_item
    /\ ret' = r
    /\ call' = [op |-> "name.setter", name |-> name, time |-> None, pre |-> link_item]
    /\ UNCHANGED <<base, file, folder, last_update, download_data, username,
                   pool, dirs, saving, simul_downloads, dl, tasks>>

\* item.time = time
SetTime(time) ==
    LET r == time_setter(link_item, time) IN
    /\ link_item # NoItem
    /\ link_item' = IF r.ok THEN r.val ELSE link_item
    /\ ret' = r
    /\ call' = [op |-> "time.setter", name |-> None, time |-> time, pre |-> link_item]
    /\ UNCHANGED <<base, file, folder, last_update, download_data, username,
                   pool, dirs, saving, simul_downloads, dl, tasks>>

\* no LinkItem yet, then constructions and assignments
InitItem ==
    /\ Constructed
    /\ file = NoFile
    /\ username = ""

NextItem ==
    \/ \E name \in NameArgs, time \in TimeArgs : Construct(name, time)
    \/ \E name \in NameArgs : SetName(name)
    \/ \E time \in TimeArgs : SetTime(time)

SpecItem == InitItem /\ [][NextItem]_vars

\* C13: constructing a LinkItem fails with a ValueError iff the name is empty
\* or None or the time is None; an existing LinkItem always has a non-empty
\* name and an instant for its time, whatever assignments were tried on it,
\* and a rejected assignment leaves both fields as they were.
C13_LinkItemValidation ==
    /\ call.op = "LinkItem" =>
          /\ ~ret.ok <=> (IsNone(call.name) \/ call.name.val = EmptyName \/ IsNone(call.time))
          /\ ~ret.ok => ret = Raise("ValueError") /\ link_item = call.pre
          /\ ret.ok => link_item = LinkItem(call.name.val, call.time.val)
    /\ link_item # NoItem => link_item.name \in ItemNames /\ link_item.time \in Times
    /\ call.op \in {"name.setter", "time.setter"} =>
          /\ ~ret.ok <=> IF call.op = "name.setter"
                         THEN IsNone(call.name) \/ call.name.val = EmptyName
                         ELSE IsNone(call.time)
          /\ ~ret.ok => link_item = call.pre

\* a construction rejected for its empty name, with an item already there
C13_Witness ==
    /\ call.op = "LinkItem"
    /\ call.name = Some(EmptyName)
    /\ call.time # None
    /\ ~ret.ok
    /\ call.pre # NoItem

\* a rejected assignment of None to the time of an existing item
C13_WitnessSetter ==
    /\ call.op = "time.setter"
    /\ call.time = None
    /\ ~ret.ok
    /\ link_item = call.pre
    /\ link_item.time # Epoch

(***************************************************************************)
(* APlugin.clean_up and delete_data (specification SpecCleanup)            *)
(* folder is the content of temp_path, dirs tells which of temp_path and   *)
(* _download_path exist, pool is downloader.pool                           *)
(***************************************************************************)
\* unidown.tools.delete_dir_rec on one of the two directories: the directory
\* and all it holds are gone afterwards; a missing directory is left missing
delete_dir_rec(d, which) == [d EXCEPT ![which] = FALSE]

\* downloader.close(): releases the connections and sets pool to None; the
\* guard of clean_up is there because close() fails on a pool that is None
downloader_close(p) == IF p = PoolNone THEN Raise("AttributeError") ELSE Value(PoolNone)

\* a clean-up that closes the downloader whatever its pool is
clean_up_unguarded(p, d) ==
    LET c == downloader_close(p) IN
    IF ~c.ok THEN [ok |-> FALSE, pool |-> p, dirs |-> d]
    ELSE [ok |-> TRUE, pool |-> c.val, dirs |-> delete_dir_rec(d, "temp")]

\* APlugin.clean_up
clean_up(p, d) ==
    LET c == IF p # PoolNone THEN downloader_close(p) ELSE Value(p) IN
    IF ~c.ok THEN [ok |-> FALSE, pool |-> p, dirs |-> d]
    ELSE [ok |-> TRUE, pool |-> c.val, dirs |-> delete_dir_rec(d, "temp")]

\* APlugin.delete_data: clean_up, the download directory, the save file
delete_data(p, d, f) ==
    LET c == clean_up(p, d) IN
    IF ~c.ok THEN [ok |-> FALSE, pool |-> c.pool, dirs |-> c.dirs, file |-> f]
    ELSE [ok |-> TRUE, pool |-> c.pool, dirs |-> delete_dir_rec(c.dirs, "download"),
          file |-> NoFile]

PreState == [pool |-> pool, dirs |-> dirs, folder |-> folder, file |-> file]

CleanUp ==
    LET r == clean_up(pool, dirs) IN
    /\ pool' = r.pool
    /\ dirs' = r.dirs
    /\ folder' = IF r.dirs.temp THEN folder ELSE EmptyFolder
    /\ ret' = IF r.ok THEN Value("None") ELSE Raise("AttributeError")
    /\ call' = [op |-> "clean_up", pre |-> PreState]
    /\ UNCHANGED <<base, file, last_update, download_data, username,
                   link_item, saving, simul_downloads, dl, tasks>>

DeleteData ==
    LET r == delete_data(pool, dirs, file) IN
    /\ pool' = r.pool
    /\ dirs' = r.dirs
    /\ folder' = IF r.dirs.temp THEN folder ELSE EmptyFolder
    /\ file' = r.file
    /\ ret' = IF r.ok THEN Value("None") ELSE Raise("AttributeError")
    /\ call' = [op |-> "delete_data", pre |-> PreState]
    /\ UNCHANGED <<base, last_update, download_data, username,
                   link_item, saving, simul_downloads, dl, tasks>>

\* save_save_state when the run ends, before or after the cleaning
SaveAtEnd(data_dict) ==
    /\ file' = save_json(data_dict)
    /\ ret' = NoRet
    /\ call' = [op |-> "save_save_state", pre |-> PreState]
    /\ UNCHANGED <<base, folder, last_update, download_data, username, aux>>

\* a constructed plugin, staged files in temp_path, some save file
InitCleanup ==
    /\ ConstructedAux
    /\ base = EmptyDict
    /\ folder \in PreFolders
    /\ last_update = Epoch
    /\ download_data = EmptyDict
    /\ username = ""
    /\ file \in {NoFile, Garbage, save_json(eg_data)}
    /\ call = NoCall
    /\ ret = NoRet

NextCleanup ==
    \/ CleanUp
    \/ DeleteData
    \/ \E d \in Catalogs : SaveAtEnd(d)

SpecCleanup == InitCleanup /\ [][NextCleanup]_vars

\* C14: after clean_up the pool of the downloader is None and temp_path does
\* not exist, and clean_up returns without error also when called in that
\* state again; after delete_data temp_path, the download directory and the
\* save-state file do not exist.
C14_Cleanup ==
    /\ call.op = "clean_up" =>
          /\ ret.ok
          /\ pool = PoolNone
          /\ ~dirs.temp
          /\ folder = EmptyFolder
    /\ call.op = "delete_data" =>
          /\ ret.ok
          /\ ~dirs.temp
          /\ ~dirs.download
          /\ file = NoFile

\* clean_up called again on a plugin that is already cleaned up
C14_Witness ==
    /\ call.op = "clean_up"
    /\ call.pre.pool = PoolNone
    /\ ~call.pre.dirs.temp
    /\ ret.ok

\* delete_data on a plugin with staged files, a download directory and a save file
C14_WitnessDelete ==
    /\ call.op = "delete_data"
    /\ call.pre.pool = PoolOpen
    /\ call.pre.folder # EmptyFolder
    /\ call.pre.dirs.download
    /\ call.pre.file # NoFile
    /\ file = NoFile

(***************************************************************************)
(* APlugin.get_updated_data (specification SpecDelta)                      *)
(* base is the collection of the loaded save state, handed in as old_data  *)
(***************************************************************************)
\* a selection that also takes the items that are as old as the old ones
get_updated_data_not_older(catalog, old_data) ==
    [l \in {k \in DOMAIN catalog :
               k \notin DOMAIN old_data \/ catalog[k].time >= old_data[k].time}
        |-> catalog[l]]

\* APlugin.get_updated_data, catalog being self.download_data; a key of a dict
\* is met once, so the duplicate warning of line 386 never runs
get_updated_data(catalog, old_data) ==
    IF DOMAIN catalog = {} THEN EmptyDict
    ELSE [l \in {k \in DOMAIN catalog :
                    k \notin DOMAIN old_data \/ catalog[k].time > old_data[k].time}
            |-> catalog[l]]

GetUpdatedData ==
    /\ ret' = Return(get_updated_data(download_data, base))
    /\ call' = [op |-> "get_updated_data", old |-> base, catalog |-> download_data]
    /\ UNCHANGED <<base, file, folder, last_update, download_data, username, aux>>

\* a plugin whose save state of an earlier run is loaded
InitDelta ==
    /\ ConstructedAux
    /\ base \in Dicts
    /\ folder = EmptyFolder
    /\ last_update = Epoch
    /\ download_data = EmptyDict
    /\ username = ""
    /\ file = NoFile
    /\ call = NoCall
    /\ ret = NoRet

NextDelta ==
    \/ \E c \in Dicts : UpdateDownloadLinks(c)
    \/ GetUpdatedData

SpecDelta == InitDelta /\ [][NextDelta]_vars

\* C19: get_updated_data(old) returns exactly the entries of download_data
\* whose locator old lacks or whose time is strictly later than the time of
\* old's item for that locator, each with the catalog's item; it returns the
\* empty collection for an empty catalog, and leaves old and the catalog as
\* they were.
C19_DeltaSelection ==
    call.op = "get_updated_data" =>
        /\ ret.kind = "ok"
        /\ DOMAIN ret.val =
              {l \in DOMAIN call.catalog :
                  l \notin DOMAIN call.old \/ call.catalog[l].time > call.old[l].time}
        /\ \A l \in DOMAIN ret.val : ret.val[l] = call.catalog[l]
        /\ call.catalog = EmptyDict => ret.val = EmptyDict
        /\ base = call.old
        /\ download_data = call.catalog

\* one locator newer in the catalog and selected, the other as old as before
\* (under another name) and not selected
C19_Witness ==
    /\ call.op = "get_updated_data"
    /\ DOMAIN call.old = Locators
    /\ DOMAIN call.catalog = Locators
    /\ call.catalog["/a"].time > call.old["/a"].time
    /\ call.catalog["/b"].time = call.old["/b"].time
    /\ call.catalog["/b"].name # call.old["/b"].name
    /\ DOMAIN ret.val = {"/a"}

\* an empty catalog against a non-empty old collection
C19_WitnessEmpty ==
    /\ call.op = "get_updated_data"
    /\ call.catalog = EmptyDict
    /\ call.old # EmptyDict
    /\ ret.val = EmptyDict

(***************************************************************************)
(* APlugin.save_save_state step by step, and its interruption              *)
(* (specification SpecCrash)                                               *)
(***************************************************************************)
\* the save file after open(mode='w') and before the write: no text at all
EmptyText == [kind |-> "text", text |-> "none"]
\* the save file when the write stopped part-way: the head of the JSON text
PartialText == [kind |-> "text", text |-> "part"]

\* save_save_state up to the open: the JSON text is built, then the file is
\* opened for writing, which creates it or cuts it to length 0
SaveOpen(data_dict) ==
    /\ saving = NoSave
    /\ saving' = [pc |-> "opened", state |-> create_save_state(data_dict),
                  json |-> save_json(data_dict), prev |-> file]
    /\ file' = EmptyText
    /\ call' = [op |-> "save_open"]
    /\ ret' = NoRet
    /\ UNCHANGED <<base, folder, last_update, download_data, username,
                   link_item, pool, dirs, simul_downloads, dl, tasks>>

\* writer.write(json_data) and the close at the end of the with block
SaveWrite ==
    /\ saving # NoSave
    /\ file' = saving.json
    /\ saving' = NoSave
    /\ call' = [op |-> "save_save_state", state |-> saving.state]
    /\ ret' = NoRet
    /\ UNCHANGED <<base, folder, last_update, download_data, username,
                   link_item, pool, dirs, simul_downloads, dl, tasks>>

\* the process dies, or the write fails, between the open and the end of the
\* write: nothing or a part of the text is in the file
SaveInterrupted(part) ==
    /\ saving # NoSave
    /\ file' = IF part THEN PartialText ELSE EmptyText
    /\ saving' = NoSave
    /\ call' = [op |-> "save_interrupted", prev |-> saving.prev, json |-> saving.json]
    /\ ret' = NoRet
    /\ UNCHANGED <<base, folder, last_update, download_data, username,
                   link_item, pool, dirs, simul_downloads, dl, tasks>>

\* load_save_state of the next run
LoadNextRun ==
    /\ saving = NoSave
    /\ LoadSaveState

\* a plugin over the save file of an earlier run, or over none
InitCrash ==
    /\ Constructed
    /\ username \in Usernames
    /\ file \in {NoFile} \cup {save_json(d) : d \in Catalogs}

NextCrash ==
    \/ \E d \in Dicts : SaveOpen(d)
    \/ SaveWrite
    \/ \E part \in BOOLEAN : SaveInterrupted(part)
    \/ LoadNextRun

SpecCrash == InitCrash /\ [][NextCrash]_vars

\* C18 as stated: when a save is interrupted between opening the save file and
\* the end of the write, the file holds the complete previous state or the
\* complete new state, and the next load_save_state does not fail on a
\* malformed record.
C18_SaveAtomic ==
    call.op = "save_interrupted" =>
        /\ file \in {call.prev, call.json}
        /\ load_save_state(file).kind = "ok"

(***************************************************************************)
(* APlugin.download: a thread pool of simul_downloads workers, one         *)
(* download_as_file task per item, run step by step (specification         *)
(* SpecPool)                                                               *)
(***************************************************************************)
\* the most workers a pool is given
MaxWorkers == 2
\* urllib3.util.retry.Retry(3): retries after the first attempt
Retries == 3

\* link_item_dict.items(): the order in which the jobs are submitted
Order == <<"/a", "/b">>
JobNo(l) == CHOOSE i \in 1..Len(Order) : Order[i] = l
Jobs(t) == SelectSeq(Order, LAMBDA l : l \in DOMAIN t)

\* a submitted job: the name it tries, the retries its request used, how it
\* ended, and whether as_completed has yielded it
NewTask(name) ==
    [pc |-> "queued", name |-> name, tries |-> 0, out |-> NoRet, why |-> "none",
     counted |-> FALSE]
Running(t) == {l \in DOMAIN t : t[l].pc \in {"check", "request", "open", "write"}}

\* ThreadPoolExecutor(max_workers=simul_downloads): a worker takes the oldest
\* queued job when fewer than max_workers jobs are running
may_start(t, l, workers) ==
    /\ t[l].pc = "queued"
    /\ Cardinality(Running(t)) < workers
    /\ \A k \in DOMAIN t : JobNo(k) < JobNo(l) => t[k].pc # "queued"

\* a download that goes on to the results without waiting for the jobs
may_collect_nowait(d, t) == d.pc = "running"

\* the progress loop over as_completed(job_list) has yielded every job, and
\* the with block of the executor has ended
may_collect(d, t) ==
    /\ d.pc = "running"
    /\ d.pbar = Cardinality(DOMAIN t)
    /\ \A l \in DOMAIN t : t[l].pc = "done"

\* for job in job_list: job.result(), HTTPError caught and logged; any other
\* exception of a job leaves download
download_result(t) ==
    LET jobs == Jobs(t) IN
    IF \E i \in 1..Len(jobs) : t[jobs[i]].out.kind \notin {"ok", "HTTPError", "none"}
    THEN AttributeError
    ELSE Return(SelectSeq(jobs, LAMBDA l : t[l].out.kind = "ok"))

\* downloader.request('GET', url, preload_content=False, retries=Retry(3)):
\* fails connection attempts fail before one gets the status; after Retries
\* retries a further failure is a MaxRetryError, an HTTPError
FailCounts == {0, Retries, Retries + 1}
Statuses == {200, 404}
request(fails, status) ==
    IF fails > Retries THEN [ok |-> FALSE, status |-> 0, tries |-> Retries]
    ELSE [ok |-> TRUE, status |-> status, tries |-> fails]

\* open(mode='wb') by the job: the file is created or cut to length 0
open_by(f, name, job) ==
    [n \in DOMAIN f \cup {name} |-> IF n = name THEN EmptyFile(job) ELSE f[n]]
\* out_file.write(reader.data) by the job
write_by(f, name, job) ==
    [n \in DOMAIN f \cup {name} |-> IF n = name THEN File(job) ELSE f[n]]

\* download(link_item_dict, folder, desc, unit, delay) up to the submissions
Download(link_item_dict, delay) ==
    /\ dl = NoDownload
    /\ IF DOMAIN link_item_dict = {}
       THEN /\ dl' = [pc |-> "returned", items |-> link_item_dict, delay |-> delay,
                      pbar |-> 0, result |-> Return(<<>>)]
            /\ tasks' = NoTasks
       ELSE /\ dl' = [pc |-> "running", items |-> link_item_dict, delay |-> delay,
                      pbar |-> 0, result |-> NoRet]
            /\ tasks' = [l \in DOMAIN link_item_dict |-> NewTask(link_item_dict[l].name)]
    /\ call' = [op |-> "download", pre |-> folder]
    /\ ret' = NoRet
    /\ UNCHANGED <<base, file, folder, last_update, download_data, username,
                   link_item, pool, dirs, saving, simul_downloads>>

\* a worker takes job l
Start(l) ==
    /\ dl.pc = "running"
    /\ may_start(tasks, l, simul_downloads)
    /\ tasks' = [tasks EXCEPT ![l].pc = "check"]
    /\ UNCHANGED <<base, file, folder, last_update, download_data, username, call, ret,
                   link_item, pool, dirs, saving, simul_downloads, dl>>

\* one turn of while folder.joinpath(name).exists(): name = name + '_d'
Check(l) ==
    /\ tasks[l].pc = "check"
    /\ tasks' = IF Exists(folder, tasks[l].name)
                THEN [tasks EXCEPT ![l].name = FileName(@.b, @.d + 1)]
                ELSE [tasks EXCEPT ![l].pc = "request"]
    /\ UNCHANGED <<base, file, folder, last_update, download_data, username, call, ret,
                   link_item, pool, dirs, saving, simul_downloads, dl>>

\* the request: a status other than 200 raises HTTPError at once
Request(l, fails, status) ==
    LET r == request(fails, status) IN
    /\ tasks[l].pc = "request"
    /\ tasks' = IF ~r.ok
                THEN [tasks EXCEPT ![l].pc = "done", ![l].tries = r.tries,
                                   ![l].out = HTTPError, ![l].why = "retries"]
                ELSE IF r.status = 200
                THEN [tasks EXCEPT ![l].pc = "open", ![l].tries = r.tries]
                ELSE [tasks EXCEPT ![l].pc = "done", ![l].tries = r.tries,
                                   ![l].out = HTTPError, ![l].why = "status"]
    /\ UNCHANGED <<base, file, folder, last_update, download_data, username, call, ret,
                   link_item, pool, dirs, saving, simul_downloads, dl>>

\* folder.joinpath(name).open(mode='wb')
Open(l) ==
    /\ tasks[l].pc = "open"
    /\ folder' = open_by(folder, tasks[l].name, JobNo(l))
    /\ tasks' = [tasks EXCEPT ![l].pc = "write"]
    /\ UNCHANGED <<base, file, last_update, download_data, username, call, ret,
                   link_item, pool, dirs, saving, simul_downloads, dl>>

\* out_file.write(reader.data): the body is read now, which may fail with an
\* HTTPError (connection broken); after the write time.sleep(delay) when
\* delay > 0, and return url
Write(l, body) ==
    /\ tasks[l].pc = "write"
    /\ folder' = IF body THEN write_by(folder, tasks[l].name, JobNo(l)) ELSE folder
    /\ tasks' = IF ~body
                THEN [tasks EXCEPT ![l].pc = "done", ![l].out = HTTPError, ![l].why = "body"]
                ELSE IF dl.delay > 0
                THEN [tasks EXCEPT ![l].pc = "done", ![l].out = AttributeError,
                                   ![l].why = "sleep"]
                ELSE [tasks EXCEPT ![l].pc = "done", ![l].out = Return(l)]
    /\ UNCHANGED <<base, file, last_update, download_data, username, call, ret,
                   link_item, pool, dirs, saving, simul_downloads, dl>>

\* for iteration in pbar: as_completed yields a finished job, the bar advances
Progress(l) ==
    /\ dl.pc = "running"
    /\ tasks[l].pc = "done"
    /\ ~tasks[l].counted
    /\ tasks' = [tasks EXCEPT ![l].counted = TRUE]
    /\ dl' = [dl EXCEPT !.pbar = @ + 1]
    /\ call' = [op |-> "progress", before |-> dl.pbar]
    /\ UNCHANGED <<base, file, folder, last_update, download_data, username, ret,
                   link_item, pool, dirs, saving, simul_downloads>>

\* the end of the with block and the loop over the results
Collect ==
    LET result == download_result(tasks) IN
    /\ may_collect(dl, tasks)
    /\ dl' = [dl EXCEPT !.pc = IF result.kind = "ok" THEN "returned" ELSE "raised",
                        !.result = result]
    /\ ret' = result
    /\ call' = [op |-> "download_end"]
    /\ UNCHANGED <<base, file, folder, last_update, download_data, username,
                   link_item, pool, dirs, saving, simul_downloads, tasks>>

\* check_download(link_item_dict, folder) after the download has returned
Verify ==
    /\ dl.pc = "returned"
    /\ call.op # "check_download"
    /\ ret' = Return(check_download(dl.items, folder))
    /\ call' = [op |-> "check_download", dict |-> dl.items]
    /\ UNCHANGED <<base, file, folder, last_update, download_data, username, aux>>

\* the folder before the download: empty, or holding a file One
PoolFolders == {EmptyFolder, [n \in {FileName("One", 0)} |-> File(0)]}

InitPool ==
    /\ link_item = NoItem
    /\ pool = PoolOpen
    /\ dirs = [temp |-> TRUE, download |-> TRUE]
    /\ saving = NoSave
    /\ simul_downloads \in 1..MaxWorkers
    /\ dl = NoDownload
    /\ tasks = NoTasks
    /\ base = EmptyDict
    /\ folder \in PoolFolders
    /\ last_update = Epoch
    /\ download_data = EmptyDict
    /\ username = ""
    /\ file = NoFile
    /\ call = NoCall
    /\ ret = NoRet

NextPool ==
    \/ \E d \in CheckDicts, delay \in Delays : Download(d, delay)
    \/ \E l \in DOMAIN tasks : Start(l)
    \/ \E l \in DOMAIN tasks : Check(l)
    \/ \E l \in DOMAIN tasks, fails \in FailCounts, status \in Statuses :
          Request(l, fails, status)
    \/ \E l \in DOMAIN tasks : Open(l)
    \/ \E l \in DOMAIN tasks, body \in BOOLEAN : Write(l, body)
    \/ \E l \in DOMAIN tasks : Progress(l)
    \/ Collect
    \/ Verify

SpecPool == InitPool /\ [][NextPool]_vars

(***************************************************************************)
(* Claims on the download call (specification SpecPool)                    *)
(***************************************************************************)
\* C11 as stated: whatever error a task ends with, it is caught and the
\* download call returns normally, every item's task having been started
\* once and run to its end.
C11_FailureIsolation ==
    /\ dl.pc # "raised"
    /\ dl.pc = "returned" =>
          /\ DOMAIN tasks = DOMAIN dl.items
          /\ \A l \in DOMAIN tasks : tasks[l].pc = "done"

\* C12 as stated: after download and then check_download over the same
\* collection and folder, every item whose task ended in an HTTPError is in
\* lost and not in succeed.
C12_FailedExcluded ==
    call.op = "check_download" =>
        \A l \in DOMAIN tasks :
            tasks[l].out = HTTPError =>
                /\ l \in DOMAIN ret.val.lost
                /\ l \notin DOMAIN ret.val.succeed

\* the job has written its body (it may still fail in the sleep after it)
Wrote(l) == tasks[l].pc = "done" /\ tasks[l].why \in {"none", "sleep"}

\* C15 as stated: on a pool of two or more workers, two tasks of one download
\* call that were given the same name and both wrote end with two distinct
\* files, each holding what its task wrote.
C15_NoOverwrite ==
    simul_downloads >= 2 =>
        \A k, l \in DOMAIN tasks :
            (k # l /\ Wrote(k) /\ Wrote(l) /\ dl.items[k].name = dl.items[l].name) =>
                /\ tasks[k].name # tasks[l].name
                /\ folder[tasks[k].name] = File(JobNo(k))
                /\ folder[tasks[l].name] = File(JobNo(l))

\* C16: download does not leave its with block while a job is outstanding:
\* when the call has returned or raised every submitted job is done; the bar
\* starts at 0, each step of the progress loop adds one for a finished job,
\* and it stands at the number of jobs when the loop ends.
C16_JoinAll ==
    /\ call.op = "download" => dl.pbar = 0
    /\ call.op = "progress" => dl.pbar = call.before + 1
    /\ dl.pc = "running" =>
          /\ dl.pbar = Cardinality({l \in DOMAIN tasks : tasks[l].counted})
          /\ \A l \in DOMAIN tasks : tasks[l].counted => tasks[l].pc = "done"
    /\ dl.pc \in {"returned", "raised"} =>
          /\ DOMAIN tasks = DOMAIN dl.items
          /\ \A l \in DOMAIN tasks : tasks[l].pc = "done"
          /\ dl.pbar = Cardinality(DOMAIN dl.items)

\* a download of two items has returned, one job failed and one succeeded
C16_Witness ==
    /\ dl.pc = "returned"
    /\ DOMAIN tasks = Locators
    /\ tasks["/a"].out = HTTPError
    /\ tasks["/b"].out = Return("/b")
    /\ dl.pbar = 2

\* the second job finished and was counted while the first is still at work
C16_WitnessOrder ==
    /\ dl.pc = "running"
    /\ DOMAIN tasks = Locators
    /\ tasks["/b"].counted
    /\ tasks["/a"].pc = "write"
    /\ dl.pbar = 1

\* C17 as stated: a task surfaces an HTTPError for failing attempts only after
\* its 3 retries are used up, a response other than 200 ends the task in an
\* HTTPError, and a task that ended in an HTTPError has created no file.
C17_RetryPolicy ==
    \A l \in DOMAIN tasks :
        /\ (tasks[l].pc = "done" /\ tasks[l].why = "retries") =>
              tasks[l].out = HTTPError /\ tasks[l].tries = Retries
        /\ (tasks[l].pc = "done" /\ tasks[l].why = "status") => tasks[l].out = HTTPError
        /\ (tasks[l].pc = "done" /\ tasks[l].out = HTTPError) =>
              \A n \in DOMAIN folder : folder[n].nth # JobNo(l)

(***************************************************************************)
(* Claims on the checks of load_save_state (specification SpecState)       *)
(***************************************************************************)
\* C21: a SaveState that load_save_state returns from an existing file has
\* the engine's format version and the current plugin's name and version; a
\* parsed record that differs in one of the three is rejected with a
\* PluginException, the format version being compared first, the plugin
\* version second and the plugin name last.
C21_LoadedStateMatches ==
    (call.op = "load_save_state" /\ file # NoFile) =>
        /\ ret.kind \in {"ok", "PluginException"}
        /\ ret.kind = "ok" =>
              /\ ParsedFile
              /\ ret.state.version = SAVE_STATE_VERSION
              /\ ret.state.plugin_info.name = info.name
              /\ ret.state.plugin_info.version = info.version
        /\ ParsedFile =>
              ret = IF file.data["meta"]["version"] # SAVE_STATE_VERSION
                    THEN PluginException(DiffSaveStateVersion)
                    ELSE IF file.data["pluginInfo"].version # info.version
                    THEN PluginException(DiffPluginVersion)
                    ELSE IF file.data["pluginInfo"].name # info.name
                    THEN PluginException(DiffPluginName)
                    ELSE Ok(MySaveState_from_json(file.data).val)

\* a record of another plugin name and another plugin version, in the engine's
\* format version, has been rejected for its plugin version
C21_Witness ==
    /\ ParsedFile
    /\ file.data["meta"]["version"] = SAVE_STATE_VERSION
    /\ file.data["pluginInfo"].version # info.version
    /\ file.data["pluginInfo"].name # info.name
    /\ ret = PluginException(DiffPluginVersion)

\* a record found on disk has been loaded
C21_WitnessLoaded ==
    /\ ParsedFile
    /\ ~call.after_save
    /\ ret.kind = "ok"
    /\ ret.state.plugin_info = info
    /\ ret.state.username # ""

(***************************************************************************)
(* Reconciliation over runs: get_updated_data, update_dict with what was   *)
(* verified, get_updated_data again (specification SpecReconcile)          *)
(***************************************************************************)
\* the entries of a collection at the locators S
Restrict(d, S) == [l \in S |-> d[l]]

\* update_dict(old, succeeded): succeeded are the selected items at S, the
\* ones whose download was verified
MergeSelected(S) ==
    /\ call.op = "get_updated_data"
    /\ S \subseteq DOMAIN ret.val
    /\ base' = update_dict(base, Restrict(ret.val, S))
    /\ call' = [op |-> "update_dict", new |-> Restrict(ret.val, S), pre |-> base,
                selected |-> ret.val, catalog |-> download_data]
    /\ ret' = NoRet
    /\ UNCHANGED <<file, folder, last_update, download_data, username, aux>>

\* get_updated_data(old) after the merge, the catalog being as it was
SelectAgain ==
    /\ call.op = "update_dict"
    /\ ret' = Return(get_updated_data(download_data, base))
    /\ call' = [op |-> "get_updated_data", old |-> base, catalog |-> download_data,
                selected |-> call.selected, merged |-> DOMAIN call.new,
                before |-> call.pre]
    /\ UNCHANGED <<base, file, folder, last_update, download_data, username, aux>>

NextReconcile ==
    \/ \E c \in Dicts : UpdateDownloadLinks(c)
    \/ GetUpdatedData
    \/ \E S \in SUBSET Locators : MergeSelected(S)
    \/ SelectAgain

SpecReconcile == InitDelta /\ [][NextReconcile]_vars

\* the selection is one made after a merge of an earlier selection
AfterMerge == call.op = "get_updated_data" /\ "merged" \in DOMAIN call

\* C22: against an unchanged catalog, the selection made after merging all of
\* the selected items into old is empty, and the selection made after merging
\* the selected items at a subset S only is exactly the selected items outside
\* S, so the items that were not merged are selected again.
C22_ReconcileConverges ==
    AfterMerge =>
        /\ call.catalog = download_data
        /\ call.selected = get_updated_data(call.catalog, call.before)
        /\ ret.val = Restrict(call.selected, DOMAIN call.selected \ call.merged)
        /\ call.merged = DOMAIN call.selected => ret.val = EmptyDict

\* two items were selected, one of them newer than the old one, all were
\* merged, and the second selection is empty
C22_Witness ==
    /\ AfterMerge
    /\ DOMAIN call.selected = Locators
    /\ call.merged = Locators
    /\ "/a" \in DOMAIN call.before
    /\ call.selected["/a"].time > call.before["/a"].time
    /\ ret.val = EmptyDict

\* of two selected items only /a was merged, and /b is selected again
C22_WitnessPartial ==
    /\ AfterMerge
    /\ DOMAIN call.selected = Locators
    /\ call.merged = {"/a"}
    /\ DOMAIN ret.val = {"/b"}
    /\ ret.val["/b"] = download_data["/b"]

====
